---- MODULE Spec2Model ----
(***************************************************************************)
(* Model of the permission gate (src/middlewares.ts, lib/permissions) and  *)
(* of the appointment routes (routes/appointments, appointmentsController) *)
(* of the booking backend.                                                 *)
(*                                                                         *)
(* Three specifications share the variables:                               *)
(*   SpecGate  one invocation of canAccessResource(resource, action) on a  *)
(*             request drawn by InitGate;                                  *)
(*   SpecReq   one request to an appointment route drawn by InitReq, with  *)
(*             the request and its response kept in the state;             *)
(*   Spec      any sequence of requests to the appointment routes.         *)
(***************************************************************************)
EXTENDS Integers, Sequences, FiniteSets, TLC

(***************************************************************************)
(* Bounds                                                                  *)
(***************************************************************************)
\* longest role string of a user, counted in atoms (role names, ',' and ' ')
MaxRoleLen == 3
\* instants that a datetime string can name are 1..MaxTime
MaxTime == 2

(***************************************************************************)
(* JavaScript values                                                       *)
(***************************************************************************)
\* a property or body key that is not there (undefined)
Absent == "absent"
\* JSON null
Null == "null"

(***************************************************************************)
(* lib/permissions                                                         *)
(***************************************************************************)
ALL_RESOURCES ==
  << "business", "user", "waitlist-entry", "review", "service-group",
     "admin-user", "appointment", "product-order-item", "product-order",
     "product", "staff-recurring-availability", "staff-service-assignment" >>

ALL_ACTIONS == << "create", "delete", "update", "view" >>

Resource == { ALL_RESOURCES[i] : i \in 1..Len(ALL_RESOURCES) }

Action == { ALL_ACTIONS[i] : i \in 1..Len(ALL_ACTIONS) }

\* for (const resource of ALL_RESOURCES) permissionStatements[resource] = ALL_ACTIONS
permissionStatements == [ r \in Resource |-> ALL_ACTIONS ]

businessOwnerPermissions ==
  ( "business" :> << "view", "create", "update", "delete" >> ) @@
  ( "user" :> << "update", "view", "create" >> ) @@
  ( "waitlist-entry" :> << "view", "create", "update", "delete" >> ) @@
  ( "review" :> << "view" >> ) @@
  ( "service-group" :> << "view", "create", "update", "delete" >> ) @@
  ( "appointment" :> << "view", "create", "update", "delete" >> ) @@
  ( "product-order-item" :> << "view", "create", "update", "delete" >> ) @@
  ( "product-order" :> << "view", "create", "update", "delete" >> ) @@
  ( "product" :> << "view", "create", "update", "delete" >> ) @@
  ( "staff-recurring-availability" :> << "view", "create", "update", "delete" >> ) @@
  ( "staff-service-assignment" :> << "view", "create", "update", "delete" >> )

\* a staff map copied from the map of the owner
businessStaffPermissions_AsOwner == businessOwnerPermissions

businessStaffPermissions ==
  ( "user" :> << "update", "view", "create" >> ) @@
  ( "business" :> << "view", "update" >> ) @@
  ( "product" :> << "view", "create", "update", "delete" >> ) @@
  ( "product-order-item" :> << "view", "delete" >> ) @@
  ( "product-order" :> << "view", "delete" >> ) @@
  ( "staff-recurring-availability" :> << "view", "create", "update", "delete" >> ) @@
  ( "staff-service-assignment" :> << "view", "create", "update", "delete" >> )

customerPermissions ==
  ( "business" :> << "view" >> ) @@
  ( "appointment" :> << "view", "create", "delete", "update" >> ) @@
  ( "review" :> << "view", "create", "update", "delete" >> ) @@
  ( "product-order-item" :> << "view", "create", "update", "delete" >> ) @@
  ( "product-order" :> << "view", "create", "update", "delete" >> ) @@
  ( "product" :> << "view" >> ) @@
  ( "user" :> << "update", "view", "create" >> )

ALL_PERMISSIONS ==
  ( "admin" :> permissionStatements ) @@
  ( "businessOwner" :> businessOwnerPermissions ) @@
  ( "businessStaff" :> businessStaffPermissions ) @@
  ( "customer" :> customerPermissions )

(***************************************************************************)
(* Role strings.  user.role is a string; it is modelled as a sequence of   *)
(* atoms, where an atom is a role name, the separator ',' or a blank.      *)
(***************************************************************************)
\* names that Object.prototype gives to every plain object, ALL_PERMISSIONS too
ObjectPrototypeKeys == { "constructor" }

RoleAtoms ==
  { "admin", "businessOwner", "businessStaff", "customer",
    "guest", "constructor", " ", "," }

\* the content of user.role: undefined, or a string of 0..MaxRoleLen atoms
RoleStrings == UNION { [ 1..n -> RoleAtoms ] : n \in 0..MaxRoleLen }

\* the tail of s after its first i elements
Drop(s, i) == SubSeq(s, i + 1, Len(s))

\* index of the first ',' of s, 0 when there is none
FirstComma(s) ==
  IF \E i \in 1..Len(s) : s[i] = ","
    THEN CHOOSE i \in 1..Len(s) : s[i] = "," /\ \A j \in 1..(i - 1) : s[j] # ","
    ELSE 0

\* user.role.split(','): the substrings between the separators, in order
RECURSIVE Split(_)
Split(s) ==
  LET i == FirstComma(s)
  IN  IF i = 0 THEN << s >>
      ELSE << SubSeq(s, 1, i - 1) >> \o Split(Drop(s, i))

\* the property name a substring of the role string stands for: a substring of
\* several atoms ("admin ", " customer", "") is the name of no role
RoleKey(token) == IF Len(token) = 1 THEN token[1] ELSE "<other>"

(***************************************************************************)
(* State                                                                   *)
(***************************************************************************)
VARIABLES
  store,   \* the appointments table: appointment id -> row, or NoRow
  req,     \* the request being handled (SpecGate, SpecReq), else NoReq
  res,     \* what the handling of req did, NoRes before it is handled
  before,  \* the appointments table when req arrived, the empty table where
           \* the requests are not kept (Spec, SpecBook)
  perms    \* the object ALL_PERMISSIONS of the process: role -> resource -> actions

vars == << store, req, res, before, perms >>

NoReq == [ route |-> "none" ]

\* nothing sent, next not called
NoRes ==
  [ sent |-> 0, code |-> 0, next |-> 0, error |-> << >>, data |-> [ id |-> "none" ],
    wrote |-> FALSE, threw |-> FALSE, lookups |-> << >> ]

\* response.status(code).json(...): one more response, with this code
Send(r, code) == [ r EXCEPT !.sent = @ + 1, !.code = code ]

\* res.status(code).json({ error }): the messages of the error
SendError(r, code, msgs) == [ Send(r, code) EXCEPT !.error = msgs ]

\* res.status(code).json({ data }): the row the database returned
SendData(r, code, row) == [ Send(r, code) EXCEPT !.data = row ]

\* supabase.from(table).select('id')...single(): one more lookup, in this table
Lookup(r, table) == [ r EXCEPT !.lookups = Append(@, table) ]

\* next(): one more call of the next handler of the chain
CallNext(r) == [ r EXCEPT !.next = @ + 1 ]

\* an exception leaves the middleware: nothing more is sent, next is not called
Throw(r) == [ r EXCEPT !.threw = TRUE ]

(***************************************************************************)
(* Identity: the Authorization header and what apiClient.getSession        *)
(* answers for its token                                                   *)
(***************************************************************************)
\* Authorization headers: none, one without 'Bearer ' in it, 'Bearer ' with
\* nothing behind it, 'Bearer <token>'
Headers == { "none", "basic", "bearer-empty", "bearer-token" }

\* req.headers.authorization?.split('Bearer ')[1]
BearerToken(header) ==
  CASE header = "none"         -> Absent
    [] header = "basic"        -> Absent
    [] header = "bearer-empty" -> ""
    [] header = "bearer-token" -> "tok"

\* !token
Falsy(v) == v = Absent \/ v = Null \/ v = ""

\* a user of the identity service; has_role is FALSE when user.role is undefined
UserOf(has_role, role) == [ has_role |-> has_role, role |-> role ]

NoUser == [ has_role |-> FALSE, role |-> << >>, none |-> TRUE ]

\* apiClient.getSession(token): { user, error }
SessionError == [ error |-> TRUE, user |-> NoUser ]

SessionOf(user) == [ error |-> FALSE, user |-> user ]

\* getUser that answers 401 on a session error and still reports a user
getUser_ErrorFallsThrough(auth, r) ==
  IF Falsy(BearerToken(auth.header))
    THEN [ ok |-> FALSE, res |-> Send(r, 401), user |-> NoUser ]
    ELSE IF auth.session.error
      THEN [ ok |-> TRUE, res |-> Send(r, 401), user |-> auth.session.user ]
      ELSE [ ok |-> TRUE, res |-> r, user |-> auth.session.user ]

\* getUser: 401 and false when there is no token or the session has an error,
\* else req.user is set and the result is true
getUser(auth, r) ==
  IF Falsy(BearerToken(auth.header))
    THEN [ ok |-> FALSE, res |-> Send(r, 401), user |-> NoUser ]
    ELSE IF auth.session.error
      THEN [ ok |-> FALSE, res |-> Send(r, 401), user |-> NoUser ]
      ELSE [ ok |-> TRUE, res |-> r, user |-> auth.session.user ]

\* checkForUser without its return: next() also when getUser says false
checkForUser_NextAnyway(auth, r) ==
  LET result == getUser(auth, r)
  IN  CallNext(result.res)

\* checkForUser: next() when getUser says true
checkForUser(auth, r) ==
  LET result == getUser(auth, r)
  IN  IF ~ result.ok THEN result.res ELSE CallNext(result.res)

(***************************************************************************)
(* canAccessResource                                                       *)
(***************************************************************************)
\* ALL_PERMISSIONS[role] is truthy: an own key, or a name of Object.prototype
HasPermissionsForRole(role) ==
  role \in DOMAIN ALL_PERMISSIONS \/ role \in ObjectPrototypeKeys

\* a gate that lets a role pass for a resource its map does not name
RoleAllows_MissingResourceAllowed(role, resource, action) ==
  /\ role \in DOMAIN ALL_PERMISSIONS
  /\ \/ resource \notin DOMAIN ALL_PERMISSIONS[role]
     \/ \E i \in 1..Len(ALL_PERMISSIONS[role][resource]) :
          ALL_PERMISSIONS[role][resource][i] = action

\* permissionsForRole[resource] && permissionsForRole[resource].includes(action);
\* what Object.prototype gives for a role name has no property named as a resource
RoleAllows(role, resource, action) ==
  /\ role \in DOMAIN ALL_PERMISSIONS
  /\ resource \in DOMAIN ALL_PERMISSIONS[role]
  /\ \E i \in 1..Len(ALL_PERMISSIONS[role][resource]) :
       ALL_PERMISSIONS[role][resource][i] = action

\* a loop that leaves an empty map in the table for each role it does not find
PermissionsAfterGate_CachesRoles(table, auth) ==
  IF Falsy(BearerToken(auth.header)) \/ auth.session.error \/ ~ auth.session.user.has_role
    THEN table
    ELSE LET userRoles == Split(auth.session.user.role)
             missing == { RoleKey(userRoles[i]) : i \in 1..Len(userRoles) } \ DOMAIN table
         IN  [ role \in DOMAIN table \cup missing |->
                 IF role \in missing THEN << >> ELSE table[role] ]

\* the table after the middleware has run: the loop reads ALL_PERMISSIONS[role]
\* and permissionsForRole[resource], and assigns to neither
PermissionsAfterGate(table, auth) == table

\* a loop that gives up at the first role that does not allow
HasPermissionFrom_FirstRoleOnly(userRoles, i, resource, action) ==
  /\ i <= Len(userRoles)
  /\ HasPermissionsForRole(RoleKey(userRoles[i]))
  /\ RoleAllows(RoleKey(userRoles[i]), resource, action)

\* the loop over userRoles from index i on: stops at the first role that allows
RECURSIVE HasPermissionFrom(_, _, _, _)
HasPermissionFrom(userRoles, i, resource, action) ==
  IF i > Len(userRoles) THEN FALSE
  ELSE IF /\ HasPermissionsForRole(RoleKey(userRoles[i]))
          /\ RoleAllows(RoleKey(userRoles[i]), resource, action)
    THEN TRUE
    ELSE HasPermissionFrom(userRoles, i + 1, resource, action)

\* hasPermission after the loop
HasPermission(role, resource, action) ==
  HasPermissionFrom(Split(role), 1, resource, action)

\* the middleware without its test of user.role: undefined.split throws
canAccessResource_NoRoleTest(resource, action, auth, r) ==
  LET result == getUser(auth, r)
  IN  IF ~ result.ok THEN result.res
      ELSE IF ~ result.user.has_role THEN Throw(result.res)
        ELSE IF ~ HasPermission(result.user.role, resource, action)
          THEN Send(result.res, 403)
          ELSE CallNext(result.res)

\* the middleware canAccessResource(resource, action) run on a request
canAccessResource(resource, action, auth, r) ==
  LET result == getUser(auth, r)
  IN  IF ~ result.ok THEN result.res
      ELSE IF ~ result.user.has_role \/ result.user.role = << >>
        THEN Send(result.res, 403)
        ELSE IF ~ HasPermission(result.user.role, resource, action)
          THEN Send(result.res, 403)
          ELSE CallNext(result.res)

(***************************************************************************)
(* The rows of the other tables of the database.  No appointment route     *)
(* writes them.                                                            *)
(***************************************************************************)
\* businesses.id
Businesses == { "b1", "b2" }

\* services: id -> business_id
ServiceBusiness == ( "s1" :> "b1" ) @@ ( "s2" :> "b2" )

\* profiles.id
Profiles == { "u1" }

\* business_customers: id -> business_id
CustomerBusiness == ( "c1" :> "b1" ) @@ ( "c2" :> "b2" )

\* a string that is not a UUID
NotUuid == "not-a-uuid"

\* z.uuid(): the string is a UUID
IsUuid(v) == v \notin { Absent, Null, NotUuid }

(***************************************************************************)
(* Timestamps in request bodies: a key that is absent, an ISO 8601         *)
(* datetime string ("2024-02-01T10:00:00Z") naming the instant t, or an    *)
(* ISO 8601 time-of-day string ("10:00:00") naming the hour t.             *)
(***************************************************************************)
AbsentTime == [ kind |-> "absent", t |-> 0 ]

DateTime(t) == [ kind |-> "datetime", t |-> t ]

TimeOfDay(t) == [ kind |-> "time", t |-> t ]

DateTimes == { DateTime(t) : t \in 1..MaxTime }

\* two time-of-day strings, an earlier and a later one
TimesOfDay == { TimeOfDay(1), TimeOfDay(2) }

\* z.iso.time(): HH:MM[:SS[.s+]], no date part and no zone
IsIsoTime(v) == v.kind = "time"

\* z.string().datetime(): an ISO 8601 datetime with the zone Z
IsIsoDatetime(v) == v.kind = "datetime"

\* new Date(string): the instant of a datetime string; a time-of-day string has
\* no date, the result is Invalid Date, whose time value is NaN
NewDate(v) ==
  IF v.kind = "datetime" THEN [ nan |-> FALSE, t |-> v.t ]
  ELSE [ nan |-> TRUE, t |-> 0 ]

\* a > b on two Dates: false when either is Invalid Date
DateGreater(a, b) == ~ a.nan /\ ~ b.nan /\ a.t > b.t

(***************************************************************************)
(* Appointment rows                                                        *)
(***************************************************************************)
AppointmentIds == { "a1", "a2" }

AppointmentStatus == { "pending", "confirmed", "cancelled", "completed" }

NoRow == [ id |-> "none" ]

\* the value the database stores for a column the insert does not name
ColumnOf(v) == IF v = Absent THEN Null ELSE v

(***************************************************************************)
(* zod schemas.  safeParse gives the parsed data and the issues, in the    *)
(* order zod finds them: the keys in the order of the schema, then the     *)
(* refinements.  A refinement is skipped once an issue aborts the parse (a *)
(* wrong type, a missing required key, a value outside an enum); a string  *)
(* of the wrong format does not abort.                                     *)
(***************************************************************************)
\* issues of a key that must be a UUID; nullable and optional as told
UuidIssues(v, msg, nullable, optional) ==
  IF v = Absent THEN ( IF optional THEN << >> ELSE << [ msg |-> msg, abort |-> TRUE ] >> )
  ELSE IF v = Null THEN ( IF nullable THEN << >> ELSE << [ msg |-> msg, abort |-> TRUE ] >> )
  ELSE IF IsUuid(v) THEN << >>
  ELSE << [ msg |-> msg, abort |-> FALSE ] >>

\* issues of a timestamp key whose format is tested by ok
TimeIssues(v, msg, ok, optional) ==
  IF v.kind = "absent"
    THEN ( IF optional THEN << >> ELSE << [ msg |-> msg, abort |-> TRUE ] >> )
    ELSE IF ok THEN << >> ELSE << [ msg |-> msg, abort |-> FALSE ] >>

\* issues of AppointmentStatusSchema.default('pending') and of .optional()
StatusIssues(v) ==
  IF v = Absent \/ v \in AppointmentStatus THEN << >>
  ELSE << [ msg |-> "status", abort |-> TRUE ] >>

Aborted(issues) == \E i \in 1..Len(issues) : issues[i].abort

\* CreateAppointmentSchema, first refinement
CreateCustomerRefine(data) ==
  data.user_id # Null \/ data.business_customer_id # Null

\* CreateAppointmentSchema, second refinement
CreateTimeRefine(data) ==
  DateGreater(NewDate(data.end_time), NewDate(data.start_time))

\* the issues of the keys of CreateAppointmentSchema
CreateKeyIssues(body) ==
  UuidIssues(body.service_id, "service_id", FALSE, FALSE) \o
  UuidIssues(body.user_id, "user_id", TRUE, TRUE) \o
  UuidIssues(body.staff_user_id, "staff_user_id", TRUE, TRUE) \o
  UuidIssues(body.business_customer_id, "business_customer_id", TRUE, TRUE) \o
  TimeIssues(body.start_time, "start_time", IsIsoTime(body.start_time), FALSE) \o
  TimeIssues(body.end_time, "end_time", IsIsoTime(body.end_time), FALSE) \o
  StatusIssues(body.status)

\* what the schema makes of the body: the keys of the schema only, status
\* defaulted to pending
CreateData(body) ==
  [ service_id |-> body.service_id,
    user_id |-> body.user_id,
    staff_user_id |-> body.staff_user_id,
    business_customer_id |-> body.business_customer_id,
    start_time |-> body.start_time,
    end_time |-> body.end_time,
    status |-> IF body.status = Absent THEN "pending" ELSE body.status ]

\* a parse that stops at the first rule a body breaks
CreateIssues_FirstOnly(body) ==
  LET keys == CreateKeyIssues(body)
      data == CreateData(body)
  IN  IF keys # << >> THEN << keys[1] >>
      ELSE IF ~ CreateCustomerRefine(data)
        THEN << [ msg |-> "customer", abort |-> FALSE ] >>
      ELSE IF ~ CreateTimeRefine(data)
        THEN << [ msg |-> "time", abort |-> FALSE ] >>
      ELSE << >>

\* CreateAppointmentSchema.safeParse(body).error.issues
CreateIssues(body) ==
  LET keys == CreateKeyIssues(body)
      data == CreateData(body)
  IN  IF Aborted(keys) THEN keys
      ELSE keys \o
           ( IF CreateCustomerRefine(data) THEN << >>
             ELSE << [ msg |-> "customer", abort |-> FALSE ] >> ) \o
           ( IF CreateTimeRefine(data) THEN << >>
             ELSE << [ msg |-> "time", abort |-> FALSE ] >> )

\* UpdateAppointmentSchema, first refinement
UpdateCustomerRefine(data) ==
  IF data.user_id # Absent /\ data.business_customer_id # Absent
    THEN data.user_id # Null \/ data.business_customer_id # Null
    ELSE TRUE

\* a refinement that lets an end_time equal to the start_time pass
UpdateTimeRefine_AllowsEqual(data) ==
  IF data.start_time.kind # "absent" /\ data.end_time.kind # "absent"
    THEN ~ DateGreater(NewDate(data.start_time), NewDate(data.end_time))
    ELSE TRUE

\* UpdateAppointmentSchema, second refinement
UpdateTimeRefine(data) ==
  IF data.start_time.kind # "absent" /\ data.end_time.kind # "absent"
    THEN DateGreater(NewDate(data.end_time), NewDate(data.start_time))
    ELSE TRUE

\* the issues of the keys of UpdateAppointmentSchema
UpdateKeyIssues(body) ==
  UuidIssues(body.service_id, "service_id", FALSE, TRUE) \o
  UuidIssues(body.user_id, "user_id", TRUE, TRUE) \o
  UuidIssues(body.staff_user_id, "staff_user_id", TRUE, TRUE) \o
  UuidIssues(body.business_customer_id, "business_customer_id", TRUE, TRUE) \o
  TimeIssues(body.start_time, "start_time", IsIsoDatetime(body.start_time), TRUE) \o
  TimeIssues(body.end_time, "end_time", IsIsoDatetime(body.end_time), TRUE) \o
  StatusIssues(body.status)

\* a schema that passes the keys it does not know on
UpdateData_Passthrough(body) == body

\* what the schema makes of the body: the keys of the schema only, any other
\* key of the body (business_id, id) is dropped
UpdateData(body) ==
  [ service_id |-> body.service_id,
    user_id |-> body.user_id,
    staff_user_id |-> body.staff_user_id,
    business_customer_id |-> body.business_customer_id,
    start_time |-> body.start_time,
    end_time |-> body.end_time,
    status |-> body.status ]

\* UpdateAppointmentSchema.safeParse(body).error.issues
UpdateIssues(body) ==
  LET keys == UpdateKeyIssues(body)
      data == UpdateData(body)
  IN  IF Aborted(keys) THEN keys
      ELSE keys \o
           ( IF UpdateCustomerRefine(data) THEN << >>
             ELSE << [ msg |-> "customer", abort |-> FALSE ] >> ) \o
           ( IF UpdateTimeRefine(data) THEN << >>
             ELSE << [ msg |-> "time", abort |-> FALSE ] >> )

\* issues.map(issue => issue.message)
Messages(issues) == [ i \in 1..Len(issues) |-> issues[i].msg ]

(***************************************************************************)
(* AppointmentsController.  Each handler is given the table, the request   *)
(* and the response so far; it gives the table and the response it leaves. *)
(* fault = "storage" is a request during which the storage collaborator    *)
(* fails: every call of the handler to it gives an error that is not       *)
(* PGRST116.                                                               *)
(***************************************************************************)
Faults == { "none", "storage" }

Outcome(st, r) == [ store |-> st, res |-> r ]

\* ids of the table that have no row
FreeIds(st) == { id \in AppointmentIds : st[id] = NoRow }

\* .from('businesses').select('id').eq('id', businessId).single()
BusinessFound(businessId) == businessId \in Businesses

\* .from('services').select('id').eq('id', service_id).eq('business_id', businessId).single()
ServiceFound(service_id, businessId) ==
  service_id \in DOMAIN ServiceBusiness /\ ServiceBusiness[service_id] = businessId

\* .from('profiles').select('id').eq('id', user_id).single()
ProfileFound(user_id) == user_id \in Profiles

\* .from('business_customers').select('id').eq('id', business_customer_id)
\*   .eq('business_id', businessId).single()
CustomerFound(business_customer_id, businessId) ==
  /\ business_customer_id \in DOMAIN CustomerBusiness
  /\ CustomerBusiness[business_customer_id] = businessId

\* the row the database makes of the payload of createAppointment
InsertedRow(id, businessId, data) ==
  [ id |-> id,
    business_id |-> businessId,
    service_id |-> data.service_id,
    user_id |-> ColumnOf(data.user_id),
    staff_user_id |-> ColumnOf(data.staff_user_id),
    business_customer_id |-> ColumnOf(data.business_customer_id),
    start_time |-> data.start_time,
    end_time |-> data.end_time,
    status |-> data.status ]

\* a handler that inserts the payload first and validates afterwards
createAppointment_InsertsFirst(st, businessId, body, fault, r) ==
  LET data == CreateData(body)
      id == CHOOSE i \in AppointmentIds : i \in FreeIds(st) \/ FreeIds(st) = { }
      row == InsertedRow(id, businessId, data)
      accepted ==
        /\ CreateIssues(body) = << >>
        /\ fault = "none"
        /\ BusinessFound(businessId)
        /\ ServiceFound(data.service_id, businessId)
        /\ Falsy(data.user_id) \/ ProfileFound(data.user_id)
        /\ Falsy(data.business_customer_id)
             \/ CustomerFound(data.business_customer_id, businessId)
  IN  Outcome([ st EXCEPT ![id] = row ],
              [ ( IF accepted THEN SendData(r, 201, row)
                  ELSE SendError(r, 400, << "rejected" >>) ) EXCEPT !.wrote = TRUE ])

createAppointment(st, businessId, body, fault, r) ==
  LET issues == CreateIssues(body)
      data == CreateData(body)
      id == CHOOSE i \in AppointmentIds : i \in FreeIds(st) \/ FreeIds(st) = { }
      row == InsertedRow(id, businessId, data)
      r1 == Lookup(r, "businesses")
      r2 == Lookup(r1, "services")
      r3 == IF Falsy(data.user_id) THEN r2 ELSE Lookup(r2, "profiles")
      r4 == IF Falsy(data.business_customer_id) THEN r3
            ELSE Lookup(r3, "business_customers")
  IN  IF issues # << >>
        THEN Outcome(st, SendError(r, 400, Messages(issues)))
      ELSE IF fault = "storage" \/ ~ BusinessFound(businessId)
        THEN Outcome(st, SendError(r1, 404, << "business" >>))
      ELSE IF ~ ServiceFound(data.service_id, businessId)
        THEN Outcome(st, SendError(r2, 400, << "service" >>))
      ELSE IF ~ Falsy(data.user_id) /\ ~ ProfileFound(data.user_id)
        THEN Outcome(st, SendError(r3, 400, << "profile" >>))
      ELSE IF /\ ~ Falsy(data.business_customer_id)
              /\ ~ CustomerFound(data.business_customer_id, businessId)
        THEN Outcome(st, SendError(r4, 400, << "business-customer" >>))
      ELSE Outcome([ st EXCEPT ![id] = row ],
                   [ SendData(r4, 201, row) EXCEPT !.wrote = TRUE ])

\* the updates have no value under this key
KeyAbsent(data, key) ==
  IF key \in { "start_time", "end_time" } THEN data[key].kind = "absent"
  ELSE data[key] = Absent

\* the row after .update(updates): every key of updates replaces its column
UpdatedRow(row, data) ==
  [ column \in DOMAIN row |->
      IF column \in DOMAIN data /\ ~ KeyAbsent(data, column)
        THEN data[column] ELSE row[column] ]

\* a handler without the branch for PGRST116: every error of the update is a 400
updateAppointment_NoNotFoundBranch(st, id, body, fault, r) ==
  LET issues == UpdateIssues(body)
      updates == UpdateData(body)
  IN  IF issues # << >>
        THEN Outcome(st, SendError(r, 400, Messages(issues)))
      ELSE IF fault = "storage" \/ id \notin AppointmentIds \/ st[id] = NoRow
        THEN Outcome(st, SendError(r, 400, << "storage" >>))
      ELSE Outcome([ st EXCEPT ![id] = UpdatedRow(st[id], updates) ],
                   [ SendData(r, 200, UpdatedRow(st[id], updates)) EXCEPT !.wrote = TRUE ])

updateAppointment(st, id, body, fault, r) ==
  LET issues == UpdateIssues(body)
      updates == UpdateData(body)
  IN  IF issues # << >>
        THEN Outcome(st, SendError(r, 400, Messages(issues)))
      ELSE IF fault = "storage"
        THEN Outcome(st, SendError(r, 400, << "storage" >>))
      ELSE IF id \notin AppointmentIds \/ st[id] = NoRow
        THEN Outcome(st, SendError(r, 404, << "appointment" >>))
      ELSE Outcome([ st EXCEPT ![id] = UpdatedRow(st[id], updates) ],
                   [ SendData(r, 200, UpdatedRow(st[id], updates)) EXCEPT !.wrote = TRUE ])

deleteAppointment(st, id, fault, r) ==
  IF fault = "storage"
    THEN Outcome(st, SendError(r, 500, << "storage" >>))
    ELSE Outcome([ i \in AppointmentIds |-> IF i = id THEN NoRow ELSE st[i] ],
                 [ Send(r, 204) EXCEPT !.wrote = ( id \in AppointmentIds /\ st[id] # NoRow ) ])

\* !payload.start_time
FalsyTime(v) == v.kind = "absent"

\* a switch whose approve and cancel carry the timestamps of the body along
StatusUpdateData_SpreadsPayload(body) ==
  CASE body.action = "approve" ->
         [ ok |-> TRUE, start_time |-> body.start_time, end_time |-> body.end_time,
           status |-> "confirmed", msg |-> "" ]
    [] body.action = "cancel" ->
         [ ok |-> TRUE, start_time |-> body.start_time, end_time |-> body.end_time,
           status |-> "cancelled", msg |-> "" ]
    [] body.action = "reschedule" ->
         IF FalsyTime(body.start_time) \/ FalsyTime(body.end_time)
           THEN [ ok |-> FALSE, start_time |-> AbsentTime, end_time |-> AbsentTime,
                  status |-> Absent, msg |-> "missing" ]
           ELSE [ ok |-> TRUE, start_time |-> body.start_time,
                  end_time |-> body.end_time, status |-> "pending", msg |-> "" ]
    [] OTHER ->
         [ ok |-> FALSE, start_time |-> AbsentTime, end_time |-> AbsentTime,
           status |-> Absent, msg |-> "invalid action" ]

\* a switch whose default case approves, and whose reschedule goes on with the
\* timestamps it has
StatusUpdateData_NoRefusal(body) ==
  CASE body.action = "cancel" ->
         [ ok |-> TRUE, start_time |-> AbsentTime, end_time |-> AbsentTime,
           status |-> "cancelled", msg |-> "" ]
    [] body.action = "reschedule" ->
         [ ok |-> TRUE, start_time |-> body.start_time,
           end_time |-> body.end_time, status |-> "pending", msg |-> "" ]
    [] OTHER ->
         [ ok |-> TRUE, start_time |-> AbsentTime, end_time |-> AbsentTime,
           status |-> "confirmed", msg |-> "" ]

\* a switch with a fourth action, complete, that gives the status completed
StatusUpdateData_Completes(body) ==
  CASE body.action = "approve" ->
         [ ok |-> TRUE, start_time |-> AbsentTime, end_time |-> AbsentTime,
           status |-> "confirmed", msg |-> "" ]
    [] body.action = "cancel" ->
         [ ok |-> TRUE, start_time |-> AbsentTime, end_time |-> AbsentTime,
           status |-> "cancelled", msg |-> "" ]
    [] body.action = "complete" ->
         [ ok |-> TRUE, start_time |-> AbsentTime, end_time |-> AbsentTime,
           status |-> "completed", msg |-> "" ]
    [] body.action = "reschedule" ->
         IF FalsyTime(body.start_time) \/ FalsyTime(body.end_time)
           THEN [ ok |-> FALSE, start_time |-> AbsentTime, end_time |-> AbsentTime,
                  status |-> Absent, msg |-> "missing" ]
           ELSE [ ok |-> TRUE, start_time |-> body.start_time,
                  end_time |-> body.end_time, status |-> "pending", msg |-> "" ]
    [] OTHER ->
         [ ok |-> FALSE, start_time |-> AbsentTime, end_time |-> AbsentTime,
           status |-> Absent, msg |-> "invalid action" ]

\* the switch of updateAppointmentStatus: updateData, or none for a 400
StatusUpdateData(body) ==
  CASE body.action = "approve" ->
         [ ok |-> TRUE, start_time |-> AbsentTime, end_time |-> AbsentTime,
           status |-> "confirmed", msg |-> "" ]
    [] body.action = "cancel" ->
         [ ok |-> TRUE, start_time |-> AbsentTime, end_time |-> AbsentTime,
           status |-> "cancelled", msg |-> "" ]
    [] body.action = "reschedule" ->
         IF FalsyTime(body.start_time) \/ FalsyTime(body.end_time)
           THEN [ ok |-> FALSE, start_time |-> AbsentTime, end_time |-> AbsentTime,
                  status |-> Absent, msg |-> "missing" ]
           ELSE [ ok |-> TRUE, start_time |-> body.start_time,
                  end_time |-> body.end_time, status |-> "pending", msg |-> "" ]
    [] OTHER ->
         [ ok |-> FALSE, start_time |-> AbsentTime, end_time |-> AbsentTime,
           status |-> Absent, msg |-> "invalid action" ]

\* an update that writes the status and no other key of updateData
StatusUpdatedRow_StatusOnly(row, updateData) ==
  [ row EXCEPT !.status = updateData.status ]

\* the row after .update(updateData) of updateAppointmentStatus
StatusUpdatedRow(row, updateData) ==
  [ row EXCEPT
      !.start_time = IF updateData.start_time.kind = "absent" THEN @ ELSE updateData.start_time,
      !.end_time = IF updateData.end_time.kind = "absent" THEN @ ELSE updateData.end_time,
      !.status = updateData.status ]

\* a handler that refuses to leave the statuses cancelled and completed
updateAppointmentStatus_TerminalStatuses(st, id, body, fault, r) ==
  LET updateData == StatusUpdateData(body)
  IN  IF ~ updateData.ok
        THEN Outcome(st, SendError(r, 400, << updateData.msg >>))
      ELSE IF fault = "storage"
        THEN Outcome(st, SendError(r, 400, << "storage" >>))
      ELSE IF id \notin AppointmentIds \/ st[id] = NoRow
        THEN Outcome(st, SendError(r, 404, << "appointment" >>))
      ELSE IF st[id].status \in { "cancelled", "completed" }
        THEN Outcome(st, SendError(r, 400, << "terminal" >>))
      ELSE Outcome([ st EXCEPT ![id] = StatusUpdatedRow(st[id], updateData) ],
                   [ SendData(r, 200, StatusUpdatedRow(st[id], updateData))
                       EXCEPT !.wrote = TRUE ])

\* a handler that refuses a transition to the status the appointment has
updateAppointmentStatus_RefusesRedundant(st, id, body, fault, r) ==
  LET updateData == StatusUpdateData(body)
  IN  IF ~ updateData.ok
        THEN Outcome(st, SendError(r, 400, << updateData.msg >>))
      ELSE IF fault = "storage"
        THEN Outcome(st, SendError(r, 400, << "storage" >>))
      ELSE IF id \notin AppointmentIds \/ st[id] = NoRow
        THEN Outcome(st, SendError(r, 404, << "appointment" >>))
      ELSE IF st[id].status = updateData.status
        THEN Outcome(st, SendError(r, 400, << "redundant" >>))
      ELSE Outcome([ st EXCEPT ![id] = StatusUpdatedRow(st[id], updateData) ],
                   [ SendData(r, 200, StatusUpdatedRow(st[id], updateData))
                       EXCEPT !.wrote = TRUE ])

updateAppointmentStatus(st, id, body, fault, r) ==
  LET updateData == StatusUpdateData(body)
  IN  IF ~ updateData.ok
        THEN Outcome(st, SendError(r, 400, << updateData.msg >>))
      ELSE IF fault = "storage"
        THEN Outcome(st, SendError(r, 400, << "storage" >>))
      ELSE IF id \notin AppointmentIds \/ st[id] = NoRow
        THEN Outcome(st, SendError(r, 404, << "appointment" >>))
      ELSE Outcome([ st EXCEPT ![id] = StatusUpdatedRow(st[id], updateData) ],
                   [ SendData(r, 200, StatusUpdatedRow(st[id], updateData))
                       EXCEPT !.wrote = TRUE ])

(***************************************************************************)
(* routes/appointments: the middleware of each route, then its handler     *)
(***************************************************************************)
\* router.post('/businesses/:businessId/appointments', checkForUser, createAppointment)
PostAppointmentRoute(st, rq) ==
  LET r == checkForUser(rq.auth, NoRes)
  IN  IF r.next = 0 THEN Outcome(st, r)
      ELSE createAppointment(st, rq.businessId, rq.body, rq.fault, r)

\* router.put('/appointments/:id', checkForUser, updateAppointment)
PutAppointmentRoute(st, rq) ==
  LET r == checkForUser(rq.auth, NoRes)
  IN  IF r.next = 0 THEN Outcome(st, r)
      ELSE updateAppointment(st, rq.id, rq.body, rq.fault, r)

\* router.delete('/appointments/:id', checkForUser, deleteAppointment)
DeleteAppointmentRoute(st, rq) ==
  LET r == checkForUser(rq.auth, NoRes)
  IN  IF r.next = 0 THEN Outcome(st, r)
      ELSE deleteAppointment(st, rq.id, rq.fault, r)

\* router.patch('/appointments/:id/status', checkForUser, updateAppointmentStatus)
PatchStatusRoute(st, rq) ==
  LET r == checkForUser(rq.auth, NoRes)
  IN  IF r.next = 0 THEN Outcome(st, r)
      ELSE updateAppointmentStatus(st, rq.id, rq.body, rq.fault, r)

(***************************************************************************)
(* Requests                                                                *)
(***************************************************************************)
Auth(header, session) == [ header |-> header, session |-> session ]

\* the callers of the gate: every header, every session, every role string
GateAuths ==
  { Auth(h, SessionError) : h \in Headers } \cup
  { Auth("bearer-token", SessionOf(UserOf(FALSE, << >>))) } \cup
  { Auth("bearer-token", SessionOf(UserOf(TRUE, role))) : role \in RoleStrings }

GateRequests ==
  { [ route |-> "gate", resource |-> resource, action |-> action, auth |-> auth ] :
      resource \in Resource, action \in Action, auth \in GateAuths }

\* the callers of the appointment routes: no header, a token the identity
\* service refuses, a business owner, a member of staff
RouteAuths ==
  { Auth("none", SessionError), Auth("bearer-token", SessionError),
    Auth("bearer-token", SessionOf(UserOf(TRUE, << "businessOwner" >>))),
    Auth("bearer-token", SessionOf(UserOf(TRUE, << "businessStaff" >>))) }

\* timestamps that bodies carry
BodyTimes == { AbsentTime } \cup DateTimes \cup TimesOfDay

CreateBodies ==
  [ service_id : { "s1", "s2", NotUuid },
    user_id : { Absent, Null, "u1", "u9" },
    staff_user_id : { Absent },
    business_customer_id : { Absent, Null, "c1", "c2" },
    start_time : BodyTimes,
    end_time : BodyTimes,
    status : { Absent, "confirmed" } ]

UpdateBodies ==
  [ service_id : { Absent, "s1", "s2" },
    user_id : { Absent, Null, "u1" },
    staff_user_id : { Absent, "u1" },
    business_customer_id : { Absent, Null, "c1" },
    start_time : BodyTimes,
    end_time : BodyTimes,
    status : { Absent, "completed" },
    business_id : { Absent, "b2" },
    id : { Absent, "a2" } ]

StatusBodies ==
  [ action : { Absent, "approve", "cancel", "reschedule", "complete" },
    start_time : { AbsentTime } \cup DateTimes,
    end_time : { AbsentTime } \cup DateTimes,
    business_id : { Absent, "b2" },
    id : { Absent, "a2" } ]

PostRequestsOf(auths, faults) ==
  [ route : { "post" }, auth : auths, businessId : { "b1", "b2", "b9" },
    body : CreateBodies, fault : faults ]

PutRequestsOf(auths, faults) ==
  [ route : { "put" }, auth : auths, id : AppointmentIds,
    body : UpdateBodies, fault : faults ]

DeleteRequestsOf(auths, faults) ==
  [ route : { "delete" }, auth : auths, id : AppointmentIds, fault : faults ]

PatchRequestsOf(auths, faults) ==
  [ route : { "patch" }, auth : auths, id : AppointmentIds,
    body : StatusBodies, fault : faults ]

(***************************************************************************)
(* The table when the server starts: the hosted database holds it, and the *)
(* rows it holds satisfy the invariants of the data model.                 *)
(***************************************************************************)
SeedRows ==
  { [ id |-> "a1", business_id |-> "b1", service_id |-> "s1", user_id |-> "u1",
      staff_user_id |-> Null, business_customer_id |-> Null,
      start_time |-> DateTime(1), end_time |-> DateTime(2), status |-> status ] :
      status \in AppointmentStatus }

EmptyStore == [ id \in AppointmentIds |-> NoRow ]

InitStores ==
  { [ id \in AppointmentIds |-> IF id = "a1" THEN row ELSE NoRow ] :
      row \in SeedRows \cup { NoRow } }

(***************************************************************************)
(* SpecGate: one request through canAccessResource                         *)
(***************************************************************************)
InitGate ==
  /\ store \in InitStores
  /\ req \in GateRequests
  /\ res = NoRes
  /\ before = store
  /\ perms = ALL_PERMISSIONS

CanAccessResource ==
  /\ req.route = "gate"
  /\ res = NoRes
  /\ res' = canAccessResource(req.resource, req.action, req.auth, NoRes)
  /\ perms' = PermissionsAfterGate(perms, req.auth)
  /\ UNCHANGED << store, req, before >>

NextGate == CanAccessResource

SpecGate == InitGate /\ [][NextGate]_vars

(***************************************************************************)
(* SpecReq: one request to an appointment route                            *)
(***************************************************************************)
InitReq ==
  /\ store \in InitStores
  /\ req \in PostRequestsOf(RouteAuths, Faults) \cup PutRequestsOf(RouteAuths, Faults)
            \cup DeleteRequestsOf(RouteAuths, Faults) \cup PatchRequestsOf(RouteAuths, Faults)
  /\ res = NoRes
  /\ before = store
  /\ perms = ALL_PERMISSIONS

\* the route of req is run on the table
Handle(route, out) ==
  /\ req.route = route
  /\ res = NoRes
  /\ store' = out.store
  /\ res' = out.res
  /\ UNCHANGED << req, before, perms >>

PostAppointment ==
  /\ FreeIds(store) # { }
  /\ Handle("post", PostAppointmentRoute(store, req))

PutAppointment == Handle("put", PutAppointmentRoute(store, req))

DeleteAppointment == Handle("delete", DeleteAppointmentRoute(store, req))

PatchStatus == Handle("patch", PatchStatusRoute(store, req))

NextReq == PostAppointment \/ PutAppointment \/ DeleteAppointment \/ PatchStatus

SpecReq == InitReq /\ [][NextReq]_vars

(***************************************************************************)
(* Spec: any sequence of requests of an authenticated caller to the        *)
(* appointment routes, each served as a whole                              *)
(***************************************************************************)
SeqAuths == { Auth("bearer-token", SessionOf(UserOf(TRUE, << "businessOwner" >>))) }

SeqFaults == { "none" }

Init ==
  /\ store \in InitStores
  /\ req = NoReq
  /\ res = NoRes
  /\ before = EmptyStore
  /\ perms = ALL_PERMISSIONS

ServePost ==
  /\ FreeIds(store) # { }
  /\ \E rq \in PostRequestsOf(SeqAuths, SeqFaults) :
       store' = PostAppointmentRoute(store, rq).store
  /\ UNCHANGED << req, res, before, perms >>

ServePut ==
  /\ \E rq \in PutRequestsOf(SeqAuths, SeqFaults) :
       store' = PutAppointmentRoute(store, rq).store
  /\ UNCHANGED << req, res, before, perms >>

ServeDelete ==
  /\ \E rq \in DeleteRequestsOf(SeqAuths, SeqFaults) :
       store' = DeleteAppointmentRoute(store, rq).store
  /\ UNCHANGED << req, res, before, perms >>

ServePatch ==
  /\ \E rq \in PatchRequestsOf(SeqAuths, SeqFaults) :
       store' = PatchStatusRoute(store, rq).store
  /\ UNCHANGED << req, res, before, perms >>

Next == ServePost \/ ServePut \/ ServeDelete \/ ServePatch

Spec == Init /\ [][Next]_vars

(***************************************************************************)
(* SpecConc: two create requests in flight at once.  A handler runs until  *)
(* it awaits the identity service or the database; what it awaits arrives  *)
(* in a later step, and the steps of the two requests interleave.  Here    *)
(* req is the pair of requests and res the pair of their handlers.         *)
(***************************************************************************)
Procs == { 1, 2 }

\* bodies as the bookings of the concurrent-bookings test: the service of the
\* business, a customer, a window
ConcBodies ==
  [ service_id : { "s1" },
    user_id : { Absent, "u1" },
    staff_user_id : { Absent },
    business_customer_id : { Absent, "c1" },
    start_time : DateTimes \cup TimesOfDay,
    end_time : DateTimes \cup TimesOfDay,
    status : { Absent } ]

ConcRequests ==
  [ route : { "post" }, auth : SeqAuths, businessId : { "b1" },
    body : ConcBodies, fault : SeqFaults ]

\* a handler: what it awaits (done once it has responded), its response so far
Started == [ pc |-> "getSession", res |-> NoRes ]

Waiting(pc, r) == [ pc |-> pc, res |-> r ]

Finished(r) == [ pc |-> "done", res |-> r ]

\* what a handler of the create route does when what it awaits arrives, up
\* to its next await or its response
createAppointmentStep(st, rq, proc) ==
  LET data == CreateData(rq.body)
      r == proc.res
      r0 == checkForUser(rq.auth, NoRes)
      id == CHOOSE i \in AppointmentIds : i \in FreeIds(st) \/ FreeIds(st) = { }
      row == InsertedRow(id, rq.businessId, data)
      awaitCustomer ==
        IF Falsy(data.business_customer_id) THEN Waiting("insert", r)
        ELSE Waiting("business_customers", Lookup(r, "business_customers"))
      awaitProfile ==
        IF Falsy(data.user_id) THEN awaitCustomer
        ELSE Waiting("profiles", Lookup(r, "profiles"))
      Keep(proc2) == [ store |-> st, proc |-> proc2 ]
  IN  CASE proc.pc = "getSession" ->
             IF r0.next = 0 THEN Keep(Finished(r0))
             ELSE IF CreateIssues(rq.body) # << >>
               THEN Keep(Finished(SendError(r0, 400, Messages(CreateIssues(rq.body)))))
             ELSE Keep(Waiting("businesses", Lookup(r0, "businesses")))
        [] proc.pc = "businesses" ->
             IF rq.fault = "storage" \/ ~ BusinessFound(rq.businessId)
               THEN Keep(Finished(SendError(r, 404, << "business" >>)))
               ELSE Keep(Waiting("services", Lookup(r, "services")))
        [] proc.pc = "services" ->
             IF ~ ServiceFound(data.service_id, rq.businessId)
               THEN Keep(Finished(SendError(r, 400, << "service" >>)))
               ELSE Keep(awaitProfile)
        [] proc.pc = "profiles" ->
             IF ~ ProfileFound(data.user_id)
               THEN Keep(Finished(SendError(r, 400, << "profile" >>)))
               ELSE Keep(awaitCustomer)
        [] proc.pc = "business_customers" ->
             IF ~ CustomerFound(data.business_customer_id, rq.businessId)
               THEN Keep(Finished(SendError(r, 400, << "business-customer" >>)))
               ELSE Keep(Waiting("insert", r))
        [] proc.pc = "insert" ->
             [ store |-> [ st EXCEPT ![id] = row ],
               proc |-> Finished([ SendData(r, 201, row) EXCEPT !.wrote = TRUE ]) ]

InitConc ==
  /\ store = EmptyStore
  /\ req \in [ Procs -> ConcRequests ]
  /\ res = [ p \in Procs |-> Started ]
  /\ before = store
  /\ perms = ALL_PERMISSIONS

CreateStep(p) ==
  /\ res[p].pc # "done"
  /\ res[p].pc = "insert" => FreeIds(store) # { }
  /\ LET out == createAppointmentStep(store, req[p], res[p])
     IN  /\ store' = out.store
         /\ res' = [ res EXCEPT ![p] = out.proc ]
  /\ UNCHANGED << req, before, perms >>

NextConc == \E p \in Procs : CreateStep(p)

SpecConc == InitConc /\ [][NextConc]_vars

(***************************************************************************)
(* SpecStatus: two status requests for the appointment a1 in flight at     *)
(* once.  The update of a handler is one statement that the database       *)
(* applies to the row as a whole when it arrives.                          *)
(***************************************************************************)
\* the status requests of the two callers: the three actions, with and without
\* timestamps
ConcStatusBodies ==
  [ action : { "approve", "cancel", "reschedule" },
    start_time : { AbsentTime } \cup DateTimes,
    end_time : { AbsentTime } \cup DateTimes,
    business_id : { Absent },
    id : { Absent } ]

ConcStatusRequests ==
  [ route : { "patch" }, auth : SeqAuths, id : { "a1" },
    body : ConcStatusBodies, fault : SeqFaults ]

\* a handler that reads the row first and writes the whole row back
updateAppointmentStatusStep_ReadModifyWrite(st, rq, proc) ==
  LET updateData == StatusUpdateData(rq.body)
      r == proc.res
      r0 == checkForUser(rq.auth, NoRes)
      Keep(proc2) == [ store |-> st, proc |-> proc2 ]
  IN  CASE proc.pc = "getSession" ->
             IF r0.next = 0 THEN Keep(Finished(r0))
             ELSE IF ~ updateData.ok
               THEN Keep(Finished(SendError(r0, 400, << updateData.msg >>)))
             ELSE Keep([ pc |-> "update", res |-> r0, row |-> st[rq.id] ])
        [] proc.pc = "update" ->
             IF rq.fault = "storage"
               THEN Keep(Finished(SendError(r, 400, << "storage" >>)))
             ELSE IF proc.row = NoRow \/ st[rq.id] = NoRow
               THEN Keep(Finished(SendError(r, 404, << "appointment" >>)))
             ELSE [ store |-> [ st EXCEPT ![rq.id] = StatusUpdatedRow(proc.row, updateData) ],
                    proc |-> Finished([ SendData(r, 200, StatusUpdatedRow(proc.row, updateData))
                                          EXCEPT !.wrote = TRUE ]) ]

\* what a handler of the status route does when what it awaits arrives, up
\* to its next await or its response
updateAppointmentStatusStep(st, rq, proc) ==
  LET updateData == StatusUpdateData(rq.body)
      r == proc.res
      r0 == checkForUser(rq.auth, NoRes)
      Keep(proc2) == [ store |-> st, proc |-> proc2 ]
  IN  CASE proc.pc = "getSession" ->
             IF r0.next = 0 THEN Keep(Finished(r0))
             ELSE IF ~ updateData.ok
               THEN Keep(Finished(SendError(r0, 400, << updateData.msg >>)))
             ELSE Keep(Waiting("update", r0))
        [] proc.pc = "update" ->
             IF rq.fault = "storage"
               THEN Keep(Finished(SendError(r, 400, << "storage" >>)))
             ELSE IF rq.id \notin AppointmentIds \/ st[rq.id] = NoRow
               THEN Keep(Finished(SendError(r, 404, << "appointment" >>)))
             ELSE [ store |-> [ st EXCEPT ![rq.id] = StatusUpdatedRow(st[rq.id], updateData) ],
                    proc |-> Finished([ SendData(r, 200, StatusUpdatedRow(st[rq.id], updateData))
                                          EXCEPT !.wrote = TRUE ]) ]

InitStatus ==
  /\ store \in InitStores
  /\ req \in [ Procs -> ConcStatusRequests ]
  /\ res = [ p \in Procs |-> Started ]
  /\ before = store
  /\ perms = ALL_PERMISSIONS

StatusStep(p) ==
  /\ res[p].pc # "done"
  /\ LET out == updateAppointmentStatusStep(store, req[p], res[p])
     IN  /\ store' = out.store
         /\ res' = [ res EXCEPT ![p] = out.proc ]
  /\ UNCHANGED << req, before, perms >>

NextStatus == \E p \in Procs : StatusStep(p)

SpecStatus == InitStatus /\ [][NextStatus]_vars

(***************************************************************************)
(* SpecStaff: two addStaff requests in flight at once.  Here store is the  *)
(* tables profiles (the staff profiles, each its email, the id of a        *)
(* profile its place in the table) and business_users (business_id and     *)
(* user_id of each row).  The repository does not declare the schema of    *)
(* the database: unique tells whether the database refuses a second        *)
(* profile of an email and a second row of a (business_id, user_id).       *)
(***************************************************************************)
Emails == { "e1", "E1", "e2" }

\* email.toLowerCase()
ToLowerCase(email) == IF email = "E1" THEN "e1" ELSE email

StaffBodies == [ email : Emails \cup { Absent }, full_name : { Absent, "Staff Member" } ]

StaffRequests ==
  [ route : { "staff" }, auth : SeqAuths, businessId : { "b1", "b2" }, body : StaffBodies ]

\* .from('profiles').select('*').eq('email', email).eq('user_type', 'staff')
ProfilesOf(st, email) == { i \in 1..Len(st.profiles) : st.profiles[i] = email }

\* .from('business_users').select('*').eq('business_id', businessId).eq('user_id', userId)
BusinessUsersOf(st, businessId, userId) ==
  { i \in 1..Len(st.business_users) :
      /\ st.business_users[i].business_id = businessId
      /\ st.business_users[i].user_id = userId }

\* data of .maybeSingle() and of .single(): the row when there is exactly one,
\* null (0) when there is none or more than one
SingleOf(rows) == IF Cardinality(rows) = 1 THEN CHOOSE i \in rows : TRUE ELSE 0

\* what a handler of addStaff does when what it awaits arrives, up to its
\* next await or its response; profile is the id of the profile it holds
addStaffStep(st, rq, proc) ==
  LET r == proc.res
      r0 == checkForUser(rq.auth, NoRes)
      normalizedEmail == ToLowerCase(rq.body.email)
      profile == SingleOf(ProfilesOf(st, normalizedEmail))
      existing == SingleOf(BusinessUsersOf(st, rq.businessId, proc.profile))
      businessUser == [ business_id |-> rq.businessId, user_id |-> proc.profile ]
      Keep(proc2) == [ store |-> st, proc |-> proc2 ]
      Await(pc, id) == [ pc |-> pc, res |-> r, profile |-> id ]
  IN  CASE proc.pc = "getSession" ->
             IF r0.next = 0 THEN Keep(Finished(r0))
             ELSE IF Falsy(rq.body.email) \/ Falsy(rq.body.full_name)
               THEN Keep(Finished(SendError(r0, 400, << "required" >>)))
             ELSE Keep([ pc |-> "profiles.select", res |-> r0, profile |-> 0 ])
        [] proc.pc = "profiles.select" ->
             IF profile = 0 THEN Keep(Await("profiles.insert", 0))
             ELSE Keep(Await("business_users.select", profile))
        [] proc.pc = "profiles.insert" ->
             IF st.unique /\ ProfilesOf(st, normalizedEmail) # { }
               THEN Keep(Finished(SendError(r, 400, << "database" >>)))
               ELSE [ store |-> [ st EXCEPT !.profiles = Append(@, normalizedEmail) ],
                      proc |-> Await("business_users.select", Len(st.profiles) + 1) ]
        [] proc.pc = "business_users.select" ->
             IF existing # 0
               THEN Keep(Finished(SendError(r, 400, << "already added" >>)))
               ELSE Keep(Await("business_users.insert", proc.profile))
        [] proc.pc = "business_users.insert" ->
             IF st.unique /\ BusinessUsersOf(st, rq.businessId, proc.profile) # { }
               THEN Keep(Finished(SendError(r, 400, << "database" >>)))
               ELSE [ store |-> [ st EXCEPT !.business_users = Append(@, businessUser) ],
                      proc |-> Finished([ SendData(r, 201, businessUser) EXCEPT !.wrote = TRUE ]) ]

\* the tables when the requests arrive: no staff, a staff profile of e1, or
\* that profile added to business b1
StaffStores ==
  { [ profiles |-> profiles, business_users |-> members, unique |-> unique ] :
      profiles \in { << >>, << "e1" >> },
      members \in { << >>, << [ business_id |-> "b1", user_id |-> 1 ] >> },
      unique \in BOOLEAN }

InitStaff ==
  /\ store \in { st \in StaffStores : st.business_users # << >> => st.profiles # << >> }
  /\ req \in [ Procs -> StaffRequests ]
  /\ res = [ p \in Procs |-> Started ]
  /\ before = store
  /\ perms = ALL_PERMISSIONS

StaffStep(p) ==
  /\ res[p].pc # "done"
  /\ LET out == addStaffStep(store, req[p], res[p])
     IN  /\ store' = out.store
         /\ res' = [ res EXCEPT ![p] = out.proc ]
  /\ UNCHANGED << req, before, perms >>

NextStaff == \E p \in Procs : StaffStep(p)

SpecStaff == InitStaff /\ [][NextStaff]_vars

(***************************************************************************)
(* SpecBook: sequences of create, update and status requests on a table    *)
(* that holds two appointments of one business and one service, the second *)
(* starting when the first ends                                            *)
(***************************************************************************)
\* the second appointment of the business: it starts when the first ends
LaterRows ==
  { [ id |-> "a2", business_id |-> "b1", service_id |-> "s1", user_id |-> "u1",
      staff_user_id |-> Null, business_customer_id |-> Null,
      start_time |-> DateTime(2), end_time |-> DateTime(3),
      status |-> status ] : status \in AppointmentStatus }

\* update bodies that carry timestamps and nothing else
WindowBodies ==
  [ service_id : { Absent }, user_id : { Absent }, staff_user_id : { Absent },
    business_customer_id : { Absent }, start_time : BodyTimes, end_time : BodyTimes,
    status : { Absent }, business_id : { Absent }, id : { Absent } ]

InitBook ==
  /\ store \in { [ id \in AppointmentIds |-> IF id = "a1" THEN first ELSE later ] :
                    first \in SeedRows,
                    later \in LaterRows }
  /\ req = NoReq
  /\ res = NoRes
  /\ before = EmptyStore
  /\ perms = ALL_PERMISSIONS

BookCreate ==
  /\ \E rq \in ConcRequests : store' = PostAppointmentRoute(store, rq).store
  /\ UNCHANGED << req, res, before, perms >>

BookUpdate ==
  /\ \E id \in AppointmentIds, body \in WindowBodies :
       store' = PutAppointmentRoute(store,
                  [ route |-> "put", auth |-> CHOOSE a \in SeqAuths : TRUE, id |-> id,
                    body |-> body, fault |-> "none" ]).store
  /\ UNCHANGED << req, res, before, perms >>

BookStatus ==
  /\ \E rq \in PatchRequestsOf(SeqAuths, SeqFaults) :
       store' = PatchStatusRoute(store, rq).store
  /\ UNCHANGED << req, res, before, perms >>

NextBook == BookCreate \/ BookUpdate \/ BookStatus

SpecBook == InitBook /\ [][NextBook]_vars

(***************************************************************************)
(* Properties of the permission gate (SpecGate)                            *)
(***************************************************************************)
\* the gate has run on req
GateDone == req.route = "gate" /\ res # NoRes

\* the bearer credential resolves to a principal
Resolved(auth) == auth.header = "bearer-token" /\ ~ auth.session.error

\* the role names a role string lists: the atoms that stand alone between the
\* separators of the string
HeldRoles(s) ==
  { s[i] : i \in { j \in 1..Len(s) :
                     /\ s[j] # ","
                     /\ ( j = 1 \/ s[j - 1] = "," )
                     /\ ( j = Len(s) \/ s[j + 1] = "," ) } }

\* the permission table lists the action for the resource under the role
Listed(role, resource, action) ==
  /\ role \in { "admin", "businessOwner", "businessStaff", "customer" }
  /\ resource \in DOMAIN ALL_PERMISSIONS[role]
  /\ action \in { ALL_PERMISSIONS[role][resource][i] :
                    i \in 1..Len(ALL_PERMISSIONS[role][resource]) }

\* some role the principal holds is listed for the resource and action of req
SomeHeldRoleListed ==
  /\ Resolved(req.auth)
  /\ req.auth.session.user.has_role
  /\ \E role \in HeldRoles(req.auth.session.user.role) :
       Listed(role, req.resource, req.action)

\* C1  Default-deny: the gate calls next only for a principal one of whose
\* roles has the action listed for the resource in the permission table; a role
\* name that is no key of the table, or a (role, resource, action) the table
\* does not list, grants nothing.
C1_DefaultDeny ==
  ( GateDone /\ res.next > 0 ) => SomeHeldRoleListed

\* a role name that is no key of the table ("constructor") was denied
C1_Witness ==
  /\ GateDone
  /\ Resolved(req.auth)
  /\ req.auth.session.user.role = << "constructor" >>
  /\ req.resource = "appointment"
  /\ res.code = 403
  /\ res.next = 0

\* C3  Union-of-roles: when at least one of the roles the principal holds has
\* the action listed for the resource, the gate calls next and sends nothing,
\* wherever in the role string that role stands.
C3_UnionOfRoles ==
  ( GateDone /\ SomeHeldRoleListed ) => ( res.next = 1 /\ res.sent = 0 )

\* businessStaff lacks (appointment, create), customer has it: granted
C3_Witness ==
  /\ GateDone
  /\ Resolved(req.auth)
  /\ req.auth.session.user.role = << "businessStaff", ",", "customer" >>
  /\ req.resource = "appointment"
  /\ req.action = "create"
  /\ res.next = 1

\* C4  Empty-roles rejection: for a resolved principal whose role string is
\* empty or whose role is missing, the gate answers 403 once, does not call
\* next and throws nothing, whatever the resource and the action.
C4_EmptyRolesRejected ==
  ( /\ GateDone
    /\ Resolved(req.auth)
    /\ ( ~ req.auth.session.user.has_role \/ req.auth.session.user.role = << >> ) )
  => ( res.sent = 1 /\ res.code = 403 /\ res.next = 0 /\ ~ res.threw )

\* a principal without role metadata was answered 403
C4_Witness ==
  /\ GateDone
  /\ Resolved(req.auth)
  /\ ~ req.auth.session.user.has_role
  /\ res.code = 403
  /\ res.sent = 1

C25_TableNeverMutated ==
  /\ perms = ALL_PERMISSIONS
  /\ GateDone => store = before

\* the gate has looked up a role that is no key of the table ("guest") and
\* the table has no entry for it afterwards
C25_Witness ==
  /\ GateDone
  /\ Resolved(req.auth)
  /\ req.auth.session.user.has_role
  /\ req.auth.session.user.role = << "guest", ",", "admin" >>
  /\ res.next = 1
  /\ "guest" \notin DOMAIN perms
  /\ perms = ALL_PERMISSIONS

\* the resources for which the map of businessStaff has no entry, as the
\* specification lists them
StaffGaps == { "waitlist-entry", "service-group", "appointment", "review", "admin-user" }

\* C26  businessStaff coverage gaps resolve to deny: a principal whose only
\* role is businessStaff is answered 403, and next is not called, for every
\* action on waitlist-entry, service-group, appointment, review and admin-user.
C26_StaffGapsDenied ==
  ( /\ GateDone
    /\ Resolved(req.auth)
    /\ req.auth.session.user.has_role
    /\ req.auth.session.user.role = << "businessStaff" >>
    /\ req.resource \in StaffGaps )
  => ( res.sent = 1 /\ res.code = 403 /\ res.next = 0 )

\* a member of staff was denied the deletion of a review
C26_Witness ==
  /\ GateDone
  /\ Resolved(req.auth)
  /\ req.auth.session.user.has_role
  /\ req.auth.session.user.role = << "businessStaff" >>
  /\ req.resource = "review"
  /\ req.action = "delete"
  /\ res.code = 403
  /\ res.next = 0

(***************************************************************************)
(* Properties of one request to an appointment route (SpecReq)             *)
(***************************************************************************)
\* the route has been run on req
RouteDone(route) == req.route = route /\ res # NoRes

\* the action of the resource appointment that a route stands for
RouteAction(route) ==
  CASE route = "post"   -> "create"
    [] route = "put"    -> "update"
    [] route = "patch"  -> "update"
    [] route = "delete" -> "delete"

\* some role of the caller of req is listed for (appointment, action of the route)
CallerAuthorized ==
  /\ Resolved(req.auth)
  /\ req.auth.session.user.has_role
  /\ \E role \in HeldRoles(req.auth.session.user.role) :
       Listed(role, "appointment", RouteAction(req.route))

\* C2  Every appointment write comes from a principal the Permission Engine
\* authorizes for (appointment, action): a request of a caller none of whose
\* roles is listed for the action of the route writes no appointment.
C2_WritesAuthorized ==
  ( req.route \in { "post", "put", "patch", "delete" } /\ res # NoRes /\ res.wrote )
  => CallerAuthorized

\* the body names a customer under this key
Given(v) == v # Absent /\ v # Null

\* the timestamps of the body are of one format and end_time is the later one
OrderedWindow(body) ==
  /\ body.start_time.kind # "absent"
  /\ body.start_time.kind = body.end_time.kind
  /\ body.end_time.t > body.start_time.t

\* the timestamps of the body are of one format and end_time is not the later one
UnorderedWindow(body) ==
  /\ body.start_time.kind # "absent"
  /\ body.start_time.kind = body.end_time.kind
  /\ body.end_time.t <= body.start_time.t

\* the business of the path, the service and the customer of a create request
\* exist, service and business-customer under the business of the path
CreateRefsExist(rq) ==
  /\ rq.businessId \in Businesses
  /\ rq.body.service_id \in DOMAIN ServiceBusiness
  /\ ServiceBusiness[rq.body.service_id] = rq.businessId
  /\ Given(rq.body.user_id) => rq.body.user_id \in Profiles
  /\ Given(rq.body.business_customer_id) =>
       /\ rq.body.business_customer_id \in DOMAIN CustomerBusiness
       /\ CustomerBusiness[rq.body.business_customer_id] = rq.businessId

\* createAppointment has run on req for an authenticated caller, the storage
\* collaborator working
CreateDone == RouteDone("post") /\ Resolved(req.auth) /\ req.fault = "none"

\* C6  XOR customer reference at creation: a create request with both user_id
\* and business_customer_id is answered 400 and writes no row, so is one with
\* neither, and one with exactly one of them whose business, service and
\* customer exist is accepted with 201 and its row is written.
C6_XorCustomerReference ==
  CreateDone =>
    /\ ( Given(req.body.user_id) /\ Given(req.body.business_customer_id) )
         => ( res.code = 400 /\ ~ res.wrote )
    /\ ( ~ Given(req.body.user_id) /\ ~ Given(req.body.business_customer_id) )
         => ( res.code = 400 /\ ~ res.wrote )
    /\ ( /\ Given(req.body.user_id) # Given(req.body.business_customer_id)
         /\ CreateRefsExist(req)
         /\ OrderedWindow(req.body) )
         => ( res.code = 201 /\ res.wrote )

\* C7  Forced initial status: a create request that carries status confirmed
\* and is otherwise acceptable is persisted, and the row persisted for it has
\* status pending.
C7_ForcedInitialStatus ==
  ( /\ CreateDone
    /\ req.body.status = "confirmed"
    /\ Given(req.body.user_id) # Given(req.body.business_customer_id)
    /\ CreateRefsExist(req)
    /\ OrderedWindow(req.body) )
  => ( /\ res.code = 201
       /\ res.wrote
       /\ res.data.status = "pending"
       /\ \E id \in AppointmentIds : store[id] = res.data )

\* C8  Time ordering: a create or an update request of an authenticated caller
\* whose end_time is not later than its start_time is answered 400 and writes
\* nothing, whatever its other keys.
C8_TimeOrdering ==
  ( /\ ( RouteDone("post") \/ RouteDone("put") )
    /\ Resolved(req.auth)
    /\ UnorderedWindow(req.body) )
  => ( res.sent = 1 /\ res.code = 400 /\ ~ res.wrote /\ store \in InitStores )

\* an update of a stored appointment to a window that ends when it starts was
\* answered 400
C8_Witness ==
  /\ RouteDone("put")
  /\ Resolved(req.auth)
  /\ req.fault = "none"
  /\ store[req.id] # NoRow
  /\ req.body.start_time = DateTime(1)
  /\ req.body.end_time = DateTime(1)
  /\ res.code = 400
  /\ ~ res.wrote

\* the service of a create request exists, under another business than the
\* business of the path
ServiceOfOtherBusiness(rq) ==
  /\ rq.businessId \in Businesses
  /\ rq.body.service_id \in DOMAIN ServiceBusiness
  /\ ServiceBusiness[rq.body.service_id] # rq.businessId

\* the business-customer of a create request exists, under another business
\* than the business of the path
CustomerOfOtherBusiness(rq) ==
  /\ rq.businessId \in Businesses
  /\ rq.body.business_customer_id \in DOMAIN CustomerBusiness
  /\ CustomerBusiness[rq.body.business_customer_id] # rq.businessId

WellFormedCreate(body) ==
  /\ body.service_id \in DOMAIN ServiceBusiness
  /\ body.user_id # Absent
  /\ body.business_customer_id # Absent
  /\ body.start_time.kind = "time"
  /\ body.end_time.kind = "time"

\* the first rule a create request breaks, in the order time, exactly one
\* customer reference, business, service, profile, business-customer
FirstViolatedRule(rq) ==
  IF ~ OrderedWindow(rq.body) THEN [ code |-> 400, msg |-> "time" ]
  ELSE IF Given(rq.body.user_id) = Given(rq.body.business_customer_id)
    THEN [ code |-> 400, msg |-> "customer" ]
  ELSE IF rq.businessId \notin Businesses THEN [ code |-> 404, msg |-> "business" ]
  ELSE IF ServiceBusiness[rq.body.service_id] # rq.businessId
    THEN [ code |-> 400, msg |-> "service" ]
  ELSE IF Given(rq.body.user_id) /\ rq.body.user_id \notin Profiles
    THEN [ code |-> 400, msg |-> "profile" ]
  ELSE IF /\ Given(rq.body.business_customer_id)
          /\ ( \/ rq.body.business_customer_id \notin DOMAIN CustomerBusiness
               \/ CustomerBusiness[rq.body.business_customer_id] # rq.businessId )
    THEN [ code |-> 400, msg |-> "business-customer" ]
  ELSE [ code |-> 201, msg |-> "" ]

StatusDone ==
  /\ RouteDone("patch")
  /\ Resolved(req.auth)
  /\ req.fault = "none"
  /\ before[req.id] # NoRow

\* a reschedule request that carries both timestamps
FullReschedule(body) ==
  /\ body.action = "reschedule"
  /\ body.start_time.kind # "absent"
  /\ body.end_time.kind # "absent"

\* the rows of the table other than the row of req are as they were
OtherRowsKept == \A id \in AppointmentIds \ { req.id } : store[id] = before[id]

\* C13  The status transition function is total over the current status: on a
\* stored appointment of any status, approve is answered 200 and leaves status
\* confirmed, cancel is answered 200 and leaves cancelled, reschedule with both
\* timestamps is answered 200 and leaves pending.
C13_TransitionsTotal ==
  StatusDone =>
    /\ req.body.action = "approve" =>
         ( res.sent = 1 /\ res.code = 200 /\ store[req.id].status = "confirmed" )
    /\ req.body.action = "cancel" =>
         ( res.sent = 1 /\ res.code = 200 /\ store[req.id].status = "cancelled" )
    /\ FullReschedule(req.body) =>
         ( res.sent = 1 /\ res.code = 200 /\ store[req.id].status = "pending" )

\* a completed appointment was cancelled: 200, status cancelled
C13_Witness ==
  /\ StatusDone
  /\ before[req.id].status = "completed"
  /\ req.body.action = "cancel"
  /\ res.code = 200
  /\ store[req.id].status = "cancelled"

C15_RescheduleReplacesWindow ==
  ( StatusDone /\ FullReschedule(req.body) ) =>
    /\ res.code = 200
    /\ store[req.id] = [ before[req.id] EXCEPT !.start_time = req.body.start_time,
                                                !.end_time = req.body.end_time,
                                                !.status = "pending" ]
    /\ OtherRowsKept

\* a confirmed appointment was rescheduled to another start_time: the row has
\* the timestamps of the body and is pending again
C15_Witness ==
  /\ StatusDone
  /\ FullReschedule(req.body)
  /\ before[req.id].status = "confirmed"
  /\ req.body.start_time # before[req.id].start_time
  /\ res.code = 200
  /\ store[req.id].start_time = req.body.start_time
  /\ store[req.id].end_time = req.body.end_time
  /\ store[req.id].status = "pending"

\* C16  Rejected status actions change nothing: a status request whose action
\* is none of approve, cancel, reschedule, or a reschedule without start_time
\* or without end_time, is answered 400 and the table is as it was.
C16_RejectedActionsKeepStore ==
  ( /\ RouteDone("patch")
    /\ Resolved(req.auth)
    /\ \/ req.body.action \notin { "approve", "cancel", "reschedule" }
       \/ ( req.body.action = "reschedule" /\ ~ FullReschedule(req.body) ) )
  => ( res.sent = 1 /\ res.code = 400 /\ ~ res.wrote /\ store = before )

\* a reschedule of a stored appointment without end_time was answered 400 and
\* the appointment is as it was
C16_Witness ==
  /\ StatusDone
  /\ req.body.action = "reschedule"
  /\ req.body.start_time = DateTime(2)
  /\ req.body.end_time = AbsentTime
  /\ res.code = 400
  /\ store = before

\* C17  approve twice in a row: an approve of a stored appointment is answered
\* 200 and leaves it confirmed; the table it leaves is one a request can
\* arrive at, and an approve that arrives at a confirmed appointment is
\* answered 200 as well and leaves the appointment as the first approve left it.
C17_ApproveTwice ==
  ( StatusDone /\ req.body.action = "approve" ) =>
    /\ res.code = 200
    /\ res.data.status = "confirmed"
    /\ store[req.id].status = "confirmed"
    /\ store \in InitStores
    /\ before[req.id].status = "confirmed" => ( res.wrote /\ store = before )

\* an approve of a confirmed appointment was answered 200, still confirmed
C17_Witness ==
  /\ StatusDone
  /\ req.body.action = "approve"
  /\ before[req.id].status = "confirmed"
  /\ res.code = 200
  /\ res.data.status = "confirmed"
  /\ store = before

\* the statuses one accepted status request leaves on an appointment of this
\* status
StatusSuccessors(status) ==
  LET row == CHOOSE r \in SeedRows : r.status = status
  IN  { StatusUpdatedRow(row, StatusUpdateData(body)).status :
          body \in { b \in StatusBodies : StatusUpdateData(b).ok } }

\* the statuses of S and those that sequences of status requests lead to from
\* them
RECURSIVE StatusClosure(_)
StatusClosure(S) ==
  LET T == S \cup UNION { StatusSuccessors(s) : s \in S }
  IN  IF T = S THEN S ELSE StatusClosure(T)

\* the statuses that a sequence of one or more status requests leads to
ReachableStatuses(status) == StatusClosure(StatusSuccessors(status))

\* C18 as claimed: from the status of a stored appointment every other status
\* of pending, confirmed, cancelled, completed is reachable by some sequence
\* of approve, cancel and reschedule.
C18_EveryStatusReachable ==
  StatusDone =>
    \A status \in AppointmentStatus \ { before[req.id].status } :
      status \in ReachableStatuses(before[req.id].status)

\* C18  Status reachability: from any status of a stored appointment, the
\* statuses that sequences of approve, cancel and reschedule lead to are
\* pending, confirmed and cancelled, each in one step; no status request
\* writes completed.
C18_ReachableStatuses ==
  StatusDone =>
    /\ StatusSuccessors(before[req.id].status) = { "pending", "confirmed", "cancelled" }
    /\ ReachableStatuses(before[req.id].status) = { "pending", "confirmed", "cancelled" }
    /\ res.wrote => store[req.id].status \in StatusSuccessors(before[req.id].status)
    /\ store[req.id].status = "completed" => ( ~ res.wrote /\ store = before )

\* a completed appointment was rescheduled and is pending
C18_Witness ==
  /\ StatusDone
  /\ before[req.id].status = "completed"
  /\ FullReschedule(req.body)
  /\ res.wrote
  /\ store[req.id].status = "pending"

\* updateAppointment has run on req for an authenticated caller, the storage
\* collaborator working
UpdateDone == RouteDone("put") /\ Resolved(req.auth) /\ req.fault = "none"

\* the keys of an update body are of the right type and format each
UpdateKeysValid(body) ==
  /\ body.start_time.kind \in { "absent", "datetime" }
  /\ body.end_time.kind \in { "absent", "datetime" }

\* both customer references are supplied and it is not exactly one that is set
CustomerPairBroken(body) ==
  /\ body.user_id # Absent
  /\ body.business_customer_id # Absent
  /\ Given(body.user_id) = Given(body.business_customer_id)

\* both timestamps are supplied and end_time is not after start_time
WindowPairBroken(body) ==
  /\ body.start_time.kind # "absent"
  /\ body.end_time.kind # "absent"
  /\ ~ OrderedWindow(body)

\* C21  Partial update re-checks the cross-field rules for jointly supplied
\* fields only: an update of a stored appointment that supplies both customer
\* references is refused with 400 unless exactly one of them is set, one that
\* supplies both timestamps is refused with 400 unless end_time is after
\* start_time, and an update that breaks neither rule among the fields it
\* supplies is accepted with 200, whatever the stored value of a field it
\* leaves out.
C21_JointlySuppliedRules ==
  ( UpdateDone /\ before[req.id] # NoRow ) =>
    /\ CustomerPairBroken(req.body) => ( res.code = 400 /\ store = before )
    /\ WindowPairBroken(req.body) => ( res.code = 400 /\ store = before )
    /\ ( /\ UpdateKeysValid(req.body)
         /\ ~ CustomerPairBroken(req.body)
         /\ ~ WindowPairBroken(req.body) ) => ( res.code = 200 /\ res.wrote )

\* a status or an update request that its handler hands to the database
ReachesStorage(rq) ==
  CASE rq.route = "put" -> UpdateIssues(rq.body) = << >>
    [] rq.route = "patch" -> rq.body.action \in { "approve", "cancel" } \/ FullReschedule(rq.body)
    [] rq.route = "delete" -> TRUE
    [] OTHER -> FALSE

\* C22  Update and status action on a missing appointment: a request to
\* updateAppointment or updateAppointmentStatus for an id without a stored
\* row leaves the table as it was, no row created or modified, and one that
\* passes the validation of its handler is answered 404.
C22_MissingAppointment ==
  ( /\ RouteDone("put") \/ RouteDone("patch")
    /\ Resolved(req.auth)
    /\ req.fault = "none"
    /\ before[req.id] = NoRow )
  => ( /\ store = before
       /\ ~ res.wrote
       /\ ReachesStorage(req) => ( res.sent = 1 /\ res.code = 404 ) )

\* an update of the status of an appointment that is not stored was answered
\* 404 and no row was created
C22_Witness ==
  /\ UpdateDone
  /\ before[req.id] = NoRow
  /\ req.body.status = "completed"
  /\ req.body.start_time = AbsentTime
  /\ req.body.end_time = AbsentTime
  /\ res.code = 404
  /\ store[req.id] = NoRow
  /\ store = before

\* C23  Delete outcomes: a delete of an id with a stored row is answered 204
\* and the row is gone afterwards; a delete of an id without a stored row is
\* answered 404.
C23_DeleteOutcomes ==
  ( RouteDone("delete") /\ Resolved(req.auth) /\ req.fault = "none" ) =>
    /\ before[req.id] # NoRow => ( res.code = 204 /\ store[req.id] = NoRow )
    /\ before[req.id] = NoRow => res.code = 404

\* C24  Storage failures are internal errors: a request during which the
\* storage collaborator fails is answered 500 and the response does not carry
\* the message of the storage error; never 400, never 404.
C24_StorageFailureIs500 ==
  ( /\ req.route \in { "put", "patch", "delete" }
    /\ res # NoRes
    /\ Resolved(req.auth)
    /\ req.fault = "storage"
    /\ ReachesStorage(req) )
  => ( /\ res.code = 500
       /\ \A i \in 1..Len(res.error) : res.error[i] # "storage" )

\* C28  Unauthenticated requests never write appointments: a request to the
\* POST, PUT, PATCH or DELETE route without a bearer token, or with a token
\* whose session lookup fails, is answered 401 once by the middleware, next is
\* not called, no lookup is issued and the table is as it was.
C28_UnauthenticatedNeverWrite ==
  ( /\ req.route \in { "post", "put", "patch", "delete" }
    /\ res # NoRes
    /\ ~ Resolved(req.auth) )
  => ( /\ res.sent = 1
       /\ res.code = 401
       /\ res.next = 0
       /\ ~ res.wrote
       /\ res.lookups = << >>
       /\ store = before )

\* a delete of a stored appointment with a token whose session lookup fails
\* was answered 401 and the appointment is still stored
C28_Witness ==
  /\ RouteDone("delete")
  /\ req.auth.header = "bearer-token"
  /\ req.auth.session.error
  /\ req.fault = "none"
  /\ before[req.id] # NoRow
  /\ res.code = 401
  /\ res.next = 0
  /\ store[req.id] = before[req.id]

\* C29  The business of an appointment never changes: after an update or a
\* status request with any body, also one that carries business_id or id,
\* every stored appointment has the business_id and the id it had, and no
\* appointment has appeared or gone.
C29_BusinessAndIdKept ==
  ( RouteDone("put") \/ RouteDone("patch") ) =>
    \A id \in AppointmentIds :
      IF before[id] = NoRow THEN store[id] = NoRow
      ELSE /\ store[id] # NoRow
           /\ store[id].business_id = before[id].business_id
           /\ store[id].id = before[id].id

\* an update whose body carries business_id b2 and id a2 was answered 200 and
\* the appointment a1 is still a1 of business b1
C29_Witness ==
  /\ UpdateDone
  /\ req.id = "a1"
  /\ req.body.business_id = "b2"
  /\ req.body.id = "a2"
  /\ req.body.status = "completed"
  /\ res.code = 200
  /\ res.wrote
  /\ store["a1"].business_id = "b1"
  /\ store["a1"].id = "a1"
  /\ store["a1"].status = "completed"
  /\ store["a2"] = NoRow

(***************************************************************************)
(* Properties of the table under any sequence of requests (Spec)           *)
(***************************************************************************)
\* C9  Stored-window invariant: every stored appointment has an end_time
\* strictly later than its start_time.
C9_StoredWindow ==
  \A id \in AppointmentIds :
    store[id] # NoRow =>
      DateGreater(NewDate(store[id].end_time), NewDate(store[id].start_time))

\* C10  Service-ownership invariant: the service of every stored appointment
\* belongs to the business of the appointment.
C10_ServiceOwnership ==
  \A id \in AppointmentIds :
    store[id] # NoRow =>
      /\ store[id].service_id \in DOMAIN ServiceBusiness
      /\ ServiceBusiness[store[id].service_id] = store[id].business_id

(***************************************************************************)
(* Properties of two concurrent create requests (SpecConc)                 *)
(***************************************************************************)
\* a create request that breaks no rule of the contract
ValidCreate(rq) ==
  /\ Given(rq.body.user_id) # Given(rq.body.business_customer_id)
  /\ CreateRefsExist(rq)
  /\ OrderedWindow(rq.body)

\* C19  Concurrent creates both succeed: two valid create requests for the
\* same window and the same service of one business, handled at once, are
\* both answered 201 whatever the interleaving of their steps, and both rows
\* are in the table afterwards.
C19_ConcurrentCreatesSucceed ==
  ( /\ \A p \in Procs : res[p].pc = "done" /\ ValidCreate(req[p])
    /\ req[1].body.service_id = req[2].body.service_id
    /\ req[1].body.start_time = req[2].body.start_time
    /\ req[1].body.end_time = req[2].body.end_time )
  => ( /\ \A p \in Procs : res[p].res.code = 201 /\ res[p].res.wrote
       /\ \A id \in AppointmentIds : store[id] # NoRow )

(***************************************************************************)
(* Properties of two concurrent status requests (SpecStatus)               *)
(***************************************************************************)
\* the table after the request of p and then the request of q, each served as
\* a whole
InOrder(p, q) ==
  PatchStatusRoute(PatchStatusRoute(before, req[p]).store, req[q]).store

\* the handler of p has written, and its response carries the row as the
\* table has it: its write came last
WroteLast(p) == res[p].res.wrote /\ res[p].res.data = store[req[p].id]

\* C30  Concurrent status actions are applied as whole single-row writes: when
\* two status requests for one stored appointment have both been answered,
\* the table is what serving the two one after the other gives, in one of the
\* two orders; the status stored is the status of the action whose write came
\* last, and when one of the two is a reschedule with both timestamps and the
\* other an approve or a cancel, the window stored is the rescheduled one.
C30_ConcurrentStatusActions ==
  ( ( \A p \in Procs : res[p].pc = "done" ) /\ before["a1"] # NoRow ) =>
    /\ store \in { InOrder(1, 2), InOrder(2, 1) }
    /\ ( \E p \in Procs : res[p].res.wrote ) =>
         \E p \in Procs : /\ WroteLast(p)
                           /\ store["a1"].status = StatusUpdateData(req[p].body).status
    /\ \A p \in Procs, q \in Procs :
         ( FullReschedule(req[p].body) /\ req[q].body.action \in { "approve", "cancel" } )
         => ( /\ store["a1"].start_time = req[p].body.start_time
              /\ store["a1"].end_time = req[p].body.end_time
              /\ store["a1"].status \in { "pending", StatusUpdateData(req[q].body).status } )

\* an approve and a reschedule of a cancelled appointment have both been
\* answered 200, the write of the approve last: the appointment is confirmed
\* in the rescheduled window
C30_Witness ==
  /\ \A p \in Procs : res[p].pc = "done" /\ res[p].res.code = 200
  /\ before["a1"] # NoRow
  /\ before["a1"].status = "cancelled"
  /\ req[1].body.action = "approve"
  /\ FullReschedule(req[2].body)
  /\ req[2].body.start_time = DateTime(2)
  /\ WroteLast(1)
  /\ res[2].res.data.status = "pending"
  /\ store["a1"].status = "confirmed"
  /\ store["a1"].start_time = DateTime(2)

(***************************************************************************)
(* Properties of two concurrent addStaff requests (SpecStaff)              *)
(***************************************************************************)
\* when the requests arrived the staff profile of the email of the request
\* of p was added to the business of the request
AlreadyAdded(p) ==
  /\ req[p].body.email # Absent
  /\ \E id \in ProfilesOf(before, ToLowerCase(req[p].body.email)) :
       BusinessUsersOf(before, req[p].businessId, id) # { }

\* C27  No duplicate staff membership: business_users holds at most one row
\* per business and staff profile, also after two addStaff requests for one
\* email and business that overlap in time; an addStaff for an email already
\* added to the business is answered 400 'Staff already added to this
\* business' and inserts nothing.
C27_NoDuplicateMembership ==
  /\ \A i \in 1..Len(store.business_users), j \in 1..Len(store.business_users) :
       ( i # j ) => store.business_users[i] # store.business_users[j]
  /\ \A p \in Procs :
       ( res[p].pc = "done" /\ AlreadyAdded(p) /\ ~ Falsy(req[p].body.full_name) )
       => ( /\ res[p].res.code = 400
            /\ res[p].res.error = << "already added" >>
            /\ ~ res[p].res.wrote )

(***************************************************************************)
(* Properties of the table that holds two appointments (SpecBook)          *)
(***************************************************************************)
\* the windows of two rows have an instant in common
Overlap(a, b) ==
  /\ a.start_time.t < b.end_time.t
  /\ b.start_time.t < a.end_time.t

\* C20  Double-booking prevention: no two stored appointments of one business
\* for the same service, or for the same member of staff, have overlapping
\* windows.
C20_NoDoubleBooking ==
  \A i \in AppointmentIds, j \in AppointmentIds :
    ( /\ i # j
      /\ store[i] # NoRow
      /\ store[j] # NoRow
      /\ store[i].business_id = store[j].business_id
      /\ \/ store[i].service_id = store[j].service_id
         \/ ( store[i].staff_user_id # Null
              /\ store[i].staff_user_id = store[j].staff_user_id ) )
    => ~ Overlap(store[i], store[j])

====
